---------------------------- MODULE Spec2Model ----------------------------
(***************************************************************************)
(* ILI9488 3-line SPI display drivers.                                     *)
(*                                                                         *)
(*   "rgb"  : src/ili9488.c          RGB565, native 9-bit SPI words,       *)
(*            lcd_device power ops, sysfs attributes fill and raw.         *)
(*   "min"  : src/ili9488-minimal.c  3-bit colour, 9-bit words emulated    *)
(*            as two bytes, sysfs attributes color and backlight, mutex.   *)
(*                                                                         *)
(* The model is a set of kernel threads (the probe and a user-space        *)
(* caller of the control surface) that run the drivers' handlers.  Every   *)
(* word handed to the transport is stored in its encoded form in the       *)
(* trace of the request that sent it.                                      *)
(***************************************************************************)
EXTENDS Integers, Sequences, FiniteSets, TLC

(***************************************************************************)
(* Bounds of the model.                                                    *)
(***************************************************************************)
\* transport calls / allocations that may fail in one run
MaxFaults == 1
\* control-surface calls made by the user threads in one run
MaxCalls == 2
\* bytes parsed from one write to the raw attribute (the code stops at 16)
MaxRawBytes == 2

(***************************************************************************)
(* Program constants.                                                      *)
(***************************************************************************)
CMD_SWRESET == 1
CMD_SLEEP_OUT == 17
CMD_NORMAL_MODE_ON == 19
CMD_INVON == 33
CMD_DISPLAY_OFF == 40
CMD_DISPLAY_ON == 41
CMD_CASET == 42
CMD_PASET == 43
CMD_RAMWR == 44
CMD_MADCTL == 54
CMD_COLMOD == 58

COLOR_BLACK == 0
COLOR_BLUE == 1
COLOR_GREEN == 2
COLOR_CYAN == 3
COLOR_RED == 4
COLOR_MAGENTA == 5
COLOR_YELLOW == 6
COLOR_WHITE == 7

FB_BLANK_UNBLANK == 0

\* errno values, as the negative numbers the handlers return
ENOENT == -2
ENOMEM == -12
ENODEV == -19
EINVAL == -22
\* what spi_sync / spi_write may return on failure: a negative errno, here -EIO
TransportErrs == {-5}

\* default geometry (probe of ili9488.c; hard-coded in ili9488-minimal.c)
DefaultWidth == 320
DefaultHeight == 480

(***************************************************************************)
(* C integer arithmetic.                                                   *)
(***************************************************************************)
RECURSIVE BitAnd(_, _)
BitAnd(a, b) ==
    IF a = 0 \/ b = 0 THEN 0
    ELSE (IF a % 2 = 1 /\ b % 2 = 1 THEN 1 ELSE 0) + 2 * BitAnd(a \div 2, b \div 2)

RECURSIVE BitOr(_, _)
BitOr(a, b) ==
    IF a = 0 THEN b
    ELSE IF b = 0 THEN a
    ELSE (IF a % 2 = 1 \/ b % 2 = 1 THEN 1 ELSE 0) + 2 * BitOr(a \div 2, b \div 2)

RECURSIVE Pow2(_)
Pow2(n) == IF n = 0 THEN 1 ELSE 2 * Pow2(n - 1)

Shl(a, n) == a * Pow2(n)
Shr(a, n) == a \div Pow2(n)
U8(x) == x % 256
U16(x) == x % 65536

\* cpu_to_le16 on the little-endian CPUs the driver is built for: the value
\* is kept, truncated to 16 bits
cpu_to_le16(x) == U16(x)

(***************************************************************************)
(* Word codecs.                                                            *)
(***************************************************************************)
\* a plausible slip: the D/C flag placed in bit 7 instead of bit 8
ili9488_pack9_flag7(data, is_data) ==
    cpu_to_le16(BitOr(Shl(IF is_data # 0 THEN 1 ELSE 0, 7), BitAnd(data, 255)))

\* ili9488.c: u16 word, bit 8 = D/C, bits 7..0 = payload
ili9488_pack9(data, is_data) ==
    cpu_to_le16(BitOr(Shl(IF is_data # 0 THEN 1 ELSE 0, 8), BitAnd(data, 255)))

\* a plausible slip: the low payload bit left in bit 0 of the second byte
send_9bit_buf_lowbit(dc, data) ==
    << U8(BitOr(Shl(dc, 7), Shr(data, 1))), U8(BitAnd(data, 1)) >>

\* ili9488-minimal.c: the two bytes tx_buf[0], tx_buf[1] of ili9488_send_9bit
send_9bit_buf(dc, data) ==
    << U8(BitOr(Shl(dc, 7), Shr(data, 1))), U8(Shl(BitAnd(data, 1), 7)) >>

(***************************************************************************)
(* What the display controller reads off the wire: nine bits per word,     *)
(* the first is D/C, the next eight the payload.                           *)
(***************************************************************************)
\* native word: bits 8..0 of the 16-bit value
Decode9(word) == [dc |-> (Shr(word, 8) % 2), payload |-> (word % 256)]

\* emulated word: the eight bits of byte 0 followed by the top bit of byte 1
Decode2(buf) ==
    [dc |-> (Shr(buf[1], 7) % 2),
     payload |-> ((buf[1] % 128) * 2 + (Shr(buf[2], 7) % 2))]


(***************************************************************************)
(* State.                                                                  *)
(***************************************************************************)
VARIABLES
    variant,        \* "min" or "rgb": which driver is bound to the device
    width, height,  \* lcd->width, lcd->height (ili9488.c)
    reset_gpiod,    \* TRUE iff the optional reset line exists
    bl_gpiod,       \* TRUE iff the optional backlight line exists
    rst_val,        \* level last written to the reset line
    bl_val,         \* level last written to the backlight line
    power,          \* lcd->power (ili9488.c)
    current_color,  \* lcd->current_color (ili9488-minimal.c)
    lock,           \* owner of lcd->lock (ili9488-minimal.c), or "free"
    attrs,          \* TRUE once the sysfs attribute files exist
    lcdreg,         \* TRUE once the lcd_device is registered (ili9488.c)
    pc,             \* position of each thread
    loc,            \* locals of the handler each thread is running
    cur,            \* the request each thread is running or has just run
    owner,          \* the thread that sent the last word
    ctrl,           \* what the display controller has decoded from the wire
    faults,         \* failures the transport / allocator may still produce
    ncalls,         \* control-surface requests made so far
    in_dc, in_data, \* codec check: the inputs
    out9, out2      \* codec check: the two encodings of the inputs

devvars == << variant, width, height, reset_gpiod, bl_gpiod >>
codecvars == << in_dc, in_data, out9, out2 >>
vars == << variant, width, height, reset_gpiod, bl_gpiod, rst_val, bl_val,
           power, current_color, lock, attrs, lcdreg, pc, loc, cur,
           owner, ctrl, faults, ncalls, in_dc, in_data, out9, out2 >>

Threads == {"probe", "u1"}
Users == {"u1"}

(***************************************************************************)
(* Traces.  An event is one transport call (or a run of equal ones), a     *)
(* delay or a write to a line:                                             *)
(*   k   "cmd" | "par" | "pix" : the role the code gives the words         *)
(*       "ms" : msleep(n)   "rst" | "bl" : line set to n                   *)
(*   w   the encoded words of the repeated pattern                         *)
(*   n   how many times the pattern was sent                               *)
(*   b   patterns per transport call (burst)                               *)
(*   ret what the transport returned                                       *)
(***************************************************************************)
Ev(k, w, n, b, ret) == [k |-> k, w |-> w, n |-> n, b |-> b, ret |-> ret]
Delay(ms) == Ev("ms", << >>, ms, 0, 0)
Line(which, v) == Ev(which, << >>, v, 0, 0)
IsWord(e) == e.k \in {"cmd", "par", "pix"}

\* consecutive successful pixel bursts of the same pattern are kept as one run
TrAppend(tr, e) ==
    IF /\ Len(tr) > 0
       /\ e.k = "pix"
       /\ tr[Len(tr)].k = "pix"
       /\ tr[Len(tr)].w = e.w
       /\ tr[Len(tr)].b = e.b
       /\ tr[Len(tr)].ret = 0
       /\ e.ret = 0
    THEN [tr EXCEPT ![Len(tr)].n = @ + e.n]
    ELSE Append(tr, e)

\* (the trace so far is bound to t1 before the recursion, so that it is
\* computed once)
RECURSIVE TrAppendAll(_, _)
TrAppendAll(tr, es) ==
    IF es = << >> THEN tr
    ELSE CHOOSE x \in { TrAppendAll(t1, Tail(es)) : t1 \in {TrAppend(tr, Head(es))} } : TRUE

\* the decoded (dc, payload) pairs of an event's pattern
Decode(e) ==
    [j \in 1..Len(e.w) |->
        IF variant = "rgb" THEN Decode9(e.w[j]) ELSE Decode2(e.w[j])]

(***************************************************************************)
(* The display controller's view of the wire (observer).  It keeps the     *)
(* last opcode, the parameters that followed it, the window they set and   *)
(* the data words received since memory-write started.                     *)
(***************************************************************************)
WordsPerPixel == IF variant = "rgb" THEN 2 ELSE 1

CtrlInit ==
    [cmd |-> -1, par |-> << >>, np |-> 0, col |-> << >>, page |-> << >>,
     desync |-> FALSE]

Expected(c) ==
    IF c.col = << >> \/ c.page = << >> THEN 0
    ELSE (c.col[2] - c.col[1] + 1) * (c.page[2] - c.page[1] + 1) * WordsPerPixel

\* one decoded word d, received cnt times in a row
CtrlWord(c, d, cnt) ==
    IF d.dc = 0
    THEN [c EXCEPT
            !.cmd = d.payload, !.par = << >>, !.np = 0,
            !.desync = @ \/ (c.cmd = CMD_RAMWR /\ c.col # << >> /\ c.page # << >>
                              /\ c.np # Expected(c))]
    ELSE LET par2 == IF Len(c.par) < 4 /\ cnt = 1
                     THEN Append(c.par, d.payload) ELSE c.par
             full == Len(c.par) = 3 /\ cnt = 1
             win == << par2[1] * 256 + par2[2], par2[3] * 256 + par2[4] >>
         IN [c EXCEPT
               !.par = par2,
               !.np = @ + cnt,
               !.col = IF full /\ c.cmd = CMD_CASET THEN win ELSE @,
               !.page = IF full /\ c.cmd = CMD_PASET THEN win ELSE @,
               !.desync = @ \/ (c.cmd = CMD_RAMWR /\ c.col # << >> /\ c.page # << >>
                              /\ c.np + cnt > Expected(c))]

RECURSIVE CtrlPattern(_, _, _)
CtrlPattern(c, ds, j) ==
    IF j > Len(ds) THEN c
    ELSE CHOOSE x \in { CtrlPattern(c1, ds, j + 1) : c1 \in {CtrlWord(c, ds[j], 1)} } : TRUE

\* an event reaches the controller only if the transport delivered it
CtrlFeed(c, e) ==
    IF ~IsWord(e) \/ e.ret # 0 THEN c
    ELSE IF e.n = 1 THEN CtrlPattern(c, Decode(e), 1)
    ELSE IF e.k = "pix" /\ \A j \in 1..Len(e.w) : Decode(e)[j].dc = 1
         THEN CtrlWord(c, Decode(e)[1], e.n * Len(e.w))
    ELSE CtrlPattern(c, Decode(e), 1)

RECURSIVE CtrlFeedAll(_, _)
CtrlFeedAll(c, es) ==
    IF es = << >> THEN c
    ELSE CHOOSE x \in { CtrlFeedAll(c1, Tail(es)) : c1 \in {CtrlFeed(c, Head(es))} } : TRUE



(***************************************************************************)
(* Requests.  A request is one run of a handler (a probe step, a write or  *)
(* read of an attribute, an lcd operation):                                *)
(*   tr     the events of the request, in order                            *)
(*   fret   what the fill function returned to the handler                 *)
(*   ret    what the handler returned to its caller                        *)
(*   out    what a read handler printed                                    *)
(*   pre    the device state when the request started, post when it ended  *)
(*   cut    another request's word went out between two words of this one  *)
(*   nolock a word of this request went out while its thread did not hold  *)
(*          the lock                                                       *)
(***************************************************************************)
Snap == [color |-> current_color, power |-> power, bl |-> bl_val]

Req(t, op, arg) ==
    [by |-> t, op |-> op, arg |-> arg, tr |-> << >>, fret |-> 0,
     ret |-> 0, out |-> << >>, pre |-> Snap, post |-> Snap, done |-> FALSE,
     cut |-> FALSE, nolock |-> FALSE]

NoReq ==
    [by |-> "-", op |-> "none", arg |-> 0, tr |-> << >>, fret |-> 0,
     ret |-> 0, out |-> << >>,
     pre |-> [color |-> 0, power |-> 0, bl |-> 0],
     post |-> [color |-> 0, power |-> 0, bl |-> 0],
     done |-> TRUE, cut |-> FALSE, nolock |-> FALSE]

HasWord(es) == \E j \in 1..Len(es) : IsWord(es[j])

\* request q after its thread t has sent the events es
ReqSend(q, t, es) ==
    [q EXCEPT
       !.tr = TrAppendAll(@, es),
       !.cut = @ \/ (HasWord(es) /\ HasWord(q.tr) /\ owner # t),
       !.nolock = @ \/ (HasWord(es) /\ lock # t)]

OwnerSend(t, es) == IF HasWord(es) THEN t ELSE owner

\* request q once its handler has returned ret, leaving the device in snap
ReqDone(q, ret, snap) == [q EXCEPT !.ret = ret, !.post = snap, !.done = TRUE]

LocInit ==
    [cont |-> "", color |-> 0, old |-> 0, ret |-> 0, i |-> 0, ti |-> 0,
     cnt |-> 0, arg |-> 0]

\* where a sequence of n transport calls may fail: nowhere (0), or at one call
FailIdx(n) == {0} \cup (IF faults > 0 THEN 1..n ELSE {})
Spend(failed) == IF failed THEN faults - 1 ELSE faults

RECURSIVE Flat(_)
Flat(ss) == IF ss = << >> THEN << >> ELSE Head(ss) \o Flat(Tail(ss))

\* the pixel loops run several iterations in one step: either all that
\* remain, or (from the start of the loop) up to a point where another
\* thread is let in
PreemptAt == {49}
Chunks(i, total) ==
    {total - i} \cup (IF i = 0 THEN {m \in PreemptAt : m < total} ELSE {})

(***************************************************************************)
(* ili9488-minimal.c                                                       *)
(***************************************************************************)
\* a plausible slip: a command sent with D/C = 1
ili9488_cmd_min_as_data(cmd) == send_9bit_buf(1, cmd)

ili9488_cmd_min(cmd) == send_9bit_buf(0, cmd)

ili9488_data_min(data) == send_9bit_buf(1, data)

WordMin(k, v) == IF k = "cmd" THEN ili9488_cmd_min(v) ELSE ili9488_data_min(v)

\* a plausible slip: the reset pulse driven without testing for the line
ili9488_hardware_reset_always ==
    << Line("rst", 0), Delay(20), Line("rst", 1), Delay(120) >>

\* ili9488_hardware_reset
ili9488_hardware_reset ==
    IF ~reset_gpiod THEN << >>
    ELSE << Line("rst", 0), Delay(20), Line("rst", 1), Delay(120) >>

\* the transport calls of ili9488_3bit_init, each with the msleep after it
InitSeqMin ==
    << [k |-> "cmd", v |-> CMD_SWRESET, ms |-> 150],
       [k |-> "cmd", v |-> CMD_SLEEP_OUT, ms |-> 120],
       [k |-> "cmd", v |-> CMD_COLMOD, ms |-> 0],
       [k |-> "par", v |-> 1, ms |-> 10],
       [k |-> "cmd", v |-> CMD_MADCTL, ms |-> 0],
       [k |-> "par", v |-> 72, ms |-> 10],
       [k |-> "cmd", v |-> CMD_INVON, ms |-> 10],
       [k |-> "cmd", v |-> CMD_NORMAL_MODE_ON, ms |-> 10],
       [k |-> "cmd", v |-> CMD_DISPLAY_ON, ms |-> 50] >>

\* the events of ili9488_3bit_init when transport call f fails with r (f = 0:
\* none fails); a failed call is ignored and the sequence goes on
ili9488_3bit_init(f, r) ==
    ili9488_hardware_reset \o
    Flat([k \in 1..Len(InitSeqMin) |->
            << Ev(InitSeqMin[k].k, << WordMin(InitSeqMin[k].k, InitSeqMin[k].v) >>,
                  1, 1, IF k = f THEN r ELSE 0) >>
            \o (IF InitSeqMin[k].ms > 0 THEN << Delay(InitSeqMin[k].ms) >> ELSE << >>)])

\* the window-set words of ili9488_fill_color_3bit
WindowMin ==
    << [k |-> "cmd", v |-> CMD_CASET],
       [k |-> "par", v |-> 0], [k |-> "par", v |-> 0],
       [k |-> "par", v |-> 1], [k |-> "par", v |-> 63],
       [k |-> "cmd", v |-> CMD_PASET],
       [k |-> "par", v |-> 0], [k |-> "par", v |-> 0],
       [k |-> "par", v |-> 1], [k |-> "par", v |-> 223],
       [k |-> "cmd", v |-> CMD_RAMWR] >>

\* the window-set events of ili9488_fill_color_3bit when transport call f
\* fails with r: the first failure jumps to out
fill_window_min(f, r) ==
    [k \in 1..(IF f = 0 THEN Len(WindowMin) ELSE f) |->
        Ev(WindowMin[k].k, << WordMin(WindowMin[k].k, WindowMin[k].v) >>,
           1, 1, IF k = f THEN r ELSE 0)]

total_pixels_min == DefaultWidth * DefaultHeight

\* the colours the probe paints as a test, in order
TestColors == << COLOR_RED, COLOR_GREEN, COLOR_BLUE >>

\* ili9488_3bit_probe up to the initialisation: allocation, lines, SPI setup
ProbeMinSetup ==
    /\ variant = "min"
    /\ pc["probe"] = "start"
    /\ \/ /\ current_color' = COLOR_BLACK
          /\ lock' = "free"
          /\ rst_val' = 0
          /\ bl_val' = IF bl_gpiod THEN 1 ELSE 0
          /\ pc' = [pc EXCEPT !["probe"] = "init"]
          /\ UNCHANGED faults
       \/ /\ faults > 0
          /\ faults' = faults - 1
          /\ pc' = [pc EXCEPT !["probe"] = "done"]
          /\ UNCHANGED << current_color, lock, rst_val, bl_val >>
    /\ UNCHANGED << devvars, power, attrs, lcdreg, loc, cur, owner,
                    ctrl, ncalls, codecvars >>

\* ili9488_3bit_probe: the call of ili9488_3bit_init
Init3bit ==
    /\ variant = "min"
    /\ pc["probe"] = "init"
    /\ \E f \in FailIdx(Len(InitSeqMin)) : \E r \in TransportErrs :
         \E es \in {ili9488_3bit_init(f, r)} :
         \E q \in {ReqSend(Req("probe", "init", 0), "probe", es)} :
            /\ faults' = Spend(f # 0)
            /\ cur' = [cur EXCEPT !["probe"] = ReqDone(q, 0, Snap)]
            /\ owner' = "probe"
            /\ ctrl' = CtrlFeedAll(ctrl, es)
    /\ rst_val' = IF reset_gpiod THEN 1 ELSE rst_val
    /\ pc' = [pc EXCEPT !["probe"] = "mkfiles"]
    /\ UNCHANGED << devvars, bl_val, power, current_color, lock, attrs, lcdreg,
                    loc, ncalls, codecvars >>

\* ili9488_3bit_probe: device_create_file for color and backlight
ProbeMinFiles ==
    /\ variant = "min"
    /\ pc["probe"] = "mkfiles"
    /\ cur' = [cur EXCEPT !["probe"] = NoReq]
    /\ \/ /\ attrs' = TRUE
          /\ loc' = [loc EXCEPT !["probe"].ti = 1]
          /\ pc' = [pc EXCEPT !["probe"] = "test"]
          /\ UNCHANGED faults
       \/ /\ faults > 0
          /\ faults' = faults - 1
          /\ pc' = [pc EXCEPT !["probe"] = "done"]
          /\ UNCHANGED << attrs, loc >>
    /\ UNCHANGED << devvars, rst_val, bl_val, power, current_color, lock, lcdreg,
                    owner, ctrl, ncalls, codecvars >>

\* entry of a fill function: its arguments and locals; old is the colour cache
\* at entry
FillEnter(l, color, cont) ==
    [l EXCEPT !.color = color, !.old = current_color, !.ret = 0, !.i = 0,
              !.cont = cont]

\* a plausible slip: the mutex left untaken
mutex_lock_noop(t) == "free"

\* mutex_lock(&lcd->lock) by thread t, once the mutex is free
mutex_lock(t) == t

\* ili9488_3bit_probe: mutex_lock before a test fill
ProbeMinTestLock ==
    /\ variant = "min"
    /\ pc["probe"] = "test"
    /\ lock = "free"
    /\ lock' = mutex_lock("probe")
    /\ cur' = [cur EXCEPT !["probe"] =
                 Req("probe", "fill", TestColors[loc["probe"].ti])]
    /\ loc' = [loc EXCEPT !["probe"] =
                 FillEnter(@, TestColors[loc["probe"].ti], "pt_unlock")]
    /\ pc' = [pc EXCEPT !["probe"] = "f_win"]
    /\ UNCHANGED << devvars, rst_val, bl_val, power, current_color, attrs, lcdreg,
                    owner, ctrl, faults, ncalls, codecvars >>

\* ili9488_3bit_probe: mutex_unlock and msleep after a test fill
ProbeMinTestUnlock ==
    /\ variant = "min"
    /\ pc["probe"] = "pt_unlock"
    /\ lock' = "free"
    /\ cur' = [cur EXCEPT !["probe"] =
                 ReqDone(ReqSend(@, "probe", << Delay(2000) >>), loc["probe"].ret, Snap)]
    /\ pc' = [pc EXCEPT !["probe"] = "pt_next"]
    /\ UNCHANGED loc
    /\ UNCHANGED << devvars, rst_val, bl_val, power, current_color, attrs, lcdreg,
                    owner, ctrl, faults, ncalls, codecvars >>

\* ili9488_3bit_probe: on to the next test fill, or return 0
ProbeMinTestNext ==
    /\ variant = "min"
    /\ pc["probe"] = "pt_next"
    /\ cur' = [cur EXCEPT !["probe"] = NoReq]
    /\ IF loc["probe"].ti < Len(TestColors)
       THEN /\ loc' = [loc EXCEPT !["probe"] = [LocInit EXCEPT !.ti = loc["probe"].ti + 1]]
            /\ pc' = [pc EXCEPT !["probe"] = "test"]
       ELSE /\ loc' = [loc EXCEPT !["probe"] = LocInit]
            /\ pc' = [pc EXCEPT !["probe"] = "done"]
    /\ UNCHANGED << devvars, rst_val, bl_val, power, current_color, lock, attrs,
                    lcdreg, owner, ctrl, faults, ncalls, codecvars >>

\* ili9488_fill_color_3bit: CASET, PASET, RAMWR and their parameters
FillColor3bitWin(t) ==
    /\ pc[t] = "f_win"
    /\ \E f \in FailIdx(Len(WindowMin)) : \E r \in TransportErrs :
         \E es \in {fill_window_min(f, r)} :
            /\ faults' = Spend(f # 0)
            /\ loc' = [loc EXCEPT ![t].ret = IF f # 0 THEN r ELSE 0]
            /\ pc' = [pc EXCEPT ![t] = IF f # 0 THEN "f_out" ELSE "f_pix"]
            /\ cur' = [cur EXCEPT ![t] = ReqSend(@, t, es)]
            /\ owner' = OwnerSend(t, es)
            /\ ctrl' = CtrlFeedAll(ctrl, es)
    /\ UNCHANGED << devvars, rst_val, bl_val, power, current_color, lock, attrs,
                    lcdreg, ncalls, codecvars >>

\* ili9488_fill_color_3bit: the pixel loop, one word per iteration; m
\* iterations succeed in this step, or the next one fails and breaks the loop
FillColor3bitPix(t) ==
    /\ pc[t] = "f_pix"
    /\ \/ \E m \in Chunks(loc[t].i, total_pixels_min) :
            \E es \in {<< Ev("pix", << ili9488_data_min(loc[t].color) >>, m, 1, 0) >>} :
               /\ cur' = [cur EXCEPT ![t] = ReqSend(@, t, es)]
               /\ owner' = OwnerSend(t, es)
               /\ ctrl' = CtrlFeedAll(ctrl, es)
               /\ loc' = [loc EXCEPT ![t].ret = 0, ![t].i = @ + m]
               /\ pc' = IF loc[t].i + m < total_pixels_min
                        THEN pc ELSE [pc EXCEPT ![t] = "f_out"]
               /\ UNCHANGED faults
       \/ /\ faults > 0
          /\ \E r \in TransportErrs :
               \E es \in {<< Ev("pix", << ili9488_data_min(loc[t].color) >>, 1, 1, r) >>} :
                  /\ cur' = [cur EXCEPT ![t] = ReqSend(@, t, es)]
                  /\ owner' = OwnerSend(t, es)
                  /\ ctrl' = CtrlFeedAll(ctrl, es)
                  /\ loc' = [loc EXCEPT ![t].ret = r]
                  /\ pc' = [pc EXCEPT ![t] = "f_out"]
                  /\ faults' = faults - 1
    /\ UNCHANGED << devvars, rst_val, bl_val, power, current_color, lock, attrs,
                    lcdreg, ncalls, codecvars >>

\* a plausible slip: the colour cache never written
fill_out_color_never(ret, color, old) == old

\* a plausible slip: the colour cache written whatever the fill returned
fill_out_color_always(ret, color, old) == color

\* ili9488_fill_color_3bit, label out: the colour cache after the fill
fill_out_color(ret, color, old) == IF ret = 0 THEN color ELSE old

FillColor3bitOut(t) ==
    /\ pc[t] = "f_out"
    /\ current_color' = fill_out_color(loc[t].ret, loc[t].color, current_color)
    /\ cur' = [cur EXCEPT ![t].fret = loc[t].ret]
    /\ pc' = [pc EXCEPT ![t] = loc[t].cont]
    /\ UNCHANGED << devvars, rst_val, bl_val, power, lock, attrs, lcdreg, loc,
                    owner, ctrl, faults, ncalls, codecvars >>

(***************************************************************************)
(* ili9488-minimal.c: the sysfs attributes color and backlight.            *)
(* A written string is a tuple of characters; num says whether kstrtoul    *)
(* accepts it, and then val is the number it yields.                       *)
(***************************************************************************)
Str(num, val, chars) == [num |-> num, val |-> val, s |-> chars, count |-> Len(chars)]

ColorInputs ==
    { Str(TRUE, 4, << "4", "\n" >>),
      Str(TRUE, 8, << "8", "\n" >>),
      Str(FALSE, 0, << "r", "e", "d" >>),
      Str(FALSE, 0, << "r", "e", "d", "\n" >>),
      Str(FALSE, 0, << "B" >>) }

tolower(c) ==
    CASE c = "B" -> "b" [] c = "O" -> "o" [] c = "N" -> "n" [] c = "F" -> "f"
      [] OTHER -> c

\* strncasecmp(s, lit, len) == 0, for len <= strlen(s): the first len
\* characters agree, the end of lit counting as a character of its own
strncasecmp_eq(s, lit, len) ==
    \A j \in 1..len :
        /\ j <= Len(lit)
        /\ tolower(s[j]) = tolower(lit[j])

ColorNames ==
    << [name |-> << "b", "l", "a", "c", "k" >>, color |-> COLOR_BLACK],
       [name |-> << "b", "l", "u", "e" >>, color |-> COLOR_BLUE],
       [name |-> << "g", "r", "e", "e", "n" >>, color |-> COLOR_GREEN],
       [name |-> << "c", "y", "a", "n" >>, color |-> COLOR_CYAN],
       [name |-> << "r", "e", "d" >>, color |-> COLOR_RED],
       [name |-> << "m", "a", "g", "e", "n", "t", "a" >>, color |-> COLOR_MAGENTA],
       [name |-> << "y", "e", "l", "l", "o", "w" >>, color |-> COLOR_YELLOW],
       [name |-> << "w", "h", "i", "t", "e" >>, color |-> COLOR_WHITE] >>

\* name_to_color: the colour of the first name that matches, or an error
name_to_color(s, len) ==
    LET hits == {j \in 1..Len(ColorNames) : strncasecmp_eq(s, ColorNames[j].name, len)}
    IN IF len = 0 THEN [err |-> EINVAL, color |-> 0]
       ELSE IF hits = {} THEN [err |-> ENOENT, color |-> 0]
       ELSE [err |-> 0,
             color |-> ColorNames[CHOOSE j \in hits : \A h \in hits : j <= h].color]

\* a plausible slip: the range check of the numeric colour left out
color_parse_nocheck(in) ==
    IF in.num THEN [err |-> 0, color |-> U8(in.val)]
    ELSE [err |-> EINVAL, color |-> 0]

\* ili9488_color_store, before the lock: the colour asked for, or -EINVAL
color_parse(in) ==
    IF in.num
    THEN IF in.val > 7 THEN [err |-> EINVAL, color |-> 0]
         ELSE [err |-> 0, color |-> U8(in.val)]
    ELSE IF name_to_color(in.s, in.count).err # 0
         THEN [err |-> EINVAL, color |-> 0]
         ELSE [err |-> 0, color |-> name_to_color(in.s, in.count).color]

\* ili9488_color_store, after the unlock: what the write returns
color_store_result(ret, count) == IF ret # 0 THEN ret ELSE count

\* a user thread may start a request
MayCall(t) == pc[t] = "idle" /\ attrs /\ ncalls < MaxCalls

\* ili9488_color_store up to mutex_lock
ColorStore(t) ==
    /\ variant = "min"
    /\ MayCall(t)
    /\ ncalls' = ncalls + 1
    /\ \E in \in ColorInputs :
         IF color_parse(in).err # 0
         THEN /\ cur' = [cur EXCEPT ![t] = ReqDone(Req(t, "color_store", in),
                                                   color_parse(in).err, Snap)]
              /\ pc' = [pc EXCEPT ![t] = "ret"]
              /\ UNCHANGED loc
         ELSE /\ cur' = [cur EXCEPT ![t] = Req(t, "color_store", in)]
              /\ loc' = [loc EXCEPT ![t].color = color_parse(in).color,
                                    ![t].cnt = in.count]
              /\ pc' = [pc EXCEPT ![t] = "cs_lock"]
    /\ UNCHANGED << devvars, rst_val, bl_val, power, current_color, lock, attrs,
                    lcdreg, owner, ctrl, faults, codecvars >>

\* ili9488_color_store: mutex_lock, then the call of the fill
ColorStoreLock(t) ==
    /\ pc[t] = "cs_lock"
    /\ lock = "free"
    /\ lock' = mutex_lock(t)
    /\ loc' = [loc EXCEPT ![t] = FillEnter(@, loc[t].color, "cs_unlock")]
    /\ pc' = [pc EXCEPT ![t] = "f_win"]
    /\ UNCHANGED << devvars, rst_val, bl_val, power, current_color, attrs, lcdreg,
                    cur, owner, ctrl, faults, ncalls, codecvars >>

\* ili9488_color_store: mutex_unlock and return
ColorStoreUnlock(t) ==
    /\ pc[t] = "cs_unlock"
    /\ lock' = "free"
    /\ cur' = [cur EXCEPT ![t] =
                 ReqDone(@, color_store_result(loc[t].ret, loc[t].cnt), Snap)]
    /\ pc' = [pc EXCEPT ![t] = "ret"]
    /\ UNCHANGED << devvars, rst_val, bl_val, power, current_color, attrs, lcdreg,
                    loc, owner, ctrl, faults, ncalls, codecvars >>

\* ili9488_color_show up to mutex_lock
ColorShow(t) ==
    /\ variant = "min"
    /\ MayCall(t)
    /\ ncalls' = ncalls + 1
    /\ cur' = [cur EXCEPT ![t] = Req(t, "color_show", 0)]
    /\ pc' = [pc EXCEPT ![t] = "sh_lock"]
    /\ UNCHANGED << devvars, rst_val, bl_val, power, current_color, lock, attrs,
                    lcdreg, loc, owner, ctrl, faults, codecvars >>

\* ili9488_color_show: mutex_lock; c = lcd->current_color
ColorShowLock(t) ==
    /\ pc[t] = "sh_lock"
    /\ lock = "free"
    /\ lock' = mutex_lock(t)
    /\ pc' = [pc EXCEPT ![t] = "sh_read"]
    /\ UNCHANGED << devvars, rst_val, bl_val, power, current_color, attrs, lcdreg,
                    loc, cur, owner, ctrl, faults, ncalls, codecvars >>

\* ili9488_color_show: c = lcd->current_color; mutex_unlock; the value is
\* printed
ColorShowRead(t) ==
    /\ pc[t] = "sh_read"
    /\ lock' = "free"
    /\ cur' = [cur EXCEPT ![t] =
                 [ReqDone(@, 2, Snap) EXCEPT !.out = << current_color >>]]
    /\ pc' = [pc EXCEPT ![t] = "ret"]
    /\ UNCHANGED << devvars, rst_val, bl_val, power, current_color, attrs, lcdreg,
                    loc, owner, ctrl, faults, ncalls, codecvars >>

BacklightInputs == { << "o", "n", "\n" >>, << "O", "F", "F" >>, << "x" >> }

\* !strncasecmp(buf, lit, n) for a string that may be shorter than n
StartsWith(s, lit) == Len(s) >= Len(lit) /\ strncasecmp_eq(s, lit, Len(lit))

\* ili9488_backlight_store: the level asked for, or -EINVAL
backlight_parse(s) ==
    IF StartsWith(s, << "o", "n" >>) \/ StartsWith(s, << "1" >>)
    THEN [err |-> 0, val |-> 1]
    ELSE IF StartsWith(s, << "o", "f", "f" >>) \/ StartsWith(s, << "0" >>)
    THEN [err |-> 0, val |-> 0]
    ELSE [err |-> EINVAL, val |-> 0]

\* ili9488_backlight_store up to mutex_lock
BacklightStore(t) ==
    /\ variant = "min"
    /\ MayCall(t)
    /\ ncalls' = ncalls + 1
    /\ \E s \in BacklightInputs :
         LET rej == IF ~bl_gpiod THEN ENODEV ELSE backlight_parse(s).err
         IN IF rej # 0
            THEN /\ cur' = [cur EXCEPT ![t] =
                              ReqDone(Req(t, "backlight_store", s), rej, Snap)]
                 /\ pc' = [pc EXCEPT ![t] = "ret"]
                 /\ UNCHANGED loc
            ELSE /\ cur' = [cur EXCEPT ![t] = Req(t, "backlight_store", s)]
                 /\ loc' = [loc EXCEPT ![t].arg = backlight_parse(s).val,
                                       ![t].cnt = Len(s)]
                 /\ pc' = [pc EXCEPT ![t] = "bs_lock"]
    /\ UNCHANGED << devvars, rst_val, bl_val, power, current_color, lock, attrs,
                    lcdreg, owner, ctrl, faults, codecvars >>

BacklightStoreLock(t) ==
    /\ pc[t] = "bs_lock"
    /\ lock = "free"
    /\ lock' = mutex_lock(t)
    /\ pc' = [pc EXCEPT ![t] = "bs_set"]
    /\ UNCHANGED << devvars, rst_val, bl_val, power, current_color, attrs, lcdreg,
                    loc, cur, owner, ctrl, faults, ncalls, codecvars >>

\* ili9488_backlight_store: gpiod_set_value_cansleep, mutex_unlock, return
BacklightStoreSet(t) ==
    /\ pc[t] = "bs_set"
    /\ bl_val' = loc[t].arg
    /\ lock' = "free"
    /\ cur' = [cur EXCEPT ![t] =
                 ReqDone(ReqSend(@, t, << Line("bl", loc[t].arg) >>),
                         loc[t].cnt, [Snap EXCEPT !.bl = loc[t].arg])]
    /\ pc' = [pc EXCEPT ![t] = "ret"]
    /\ UNCHANGED << devvars, rst_val, power, current_color, attrs, lcdreg, loc,
                    owner, ctrl, faults, ncalls, codecvars >>

\* ili9488_backlight_show up to mutex_lock
BacklightShow(t) ==
    /\ variant = "min"
    /\ MayCall(t)
    /\ ncalls' = ncalls + 1
    /\ IF ~bl_gpiod
       THEN /\ cur' = [cur EXCEPT ![t] =
                         [ReqDone(Req(t, "backlight_show", 0), 13, Snap)
                            EXCEPT !.out = << "no-backlight" >>]]
            /\ pc' = [pc EXCEPT ![t] = "ret"]
       ELSE /\ cur' = [cur EXCEPT ![t] = Req(t, "backlight_show", 0)]
            /\ pc' = [pc EXCEPT ![t] = "bh_lock"]
    /\ UNCHANGED << devvars, rst_val, bl_val, power, current_color, lock, attrs,
                    lcdreg, loc, owner, ctrl, faults, codecvars >>

BacklightShowLock(t) ==
    /\ pc[t] = "bh_lock"
    /\ lock = "free"
    /\ lock' = mutex_lock(t)
    /\ pc' = [pc EXCEPT ![t] = "bh_read"]
    /\ UNCHANGED << devvars, rst_val, bl_val, power, current_color, attrs, lcdreg,
                    loc, cur, owner, ctrl, faults, ncalls, codecvars >>

\* ili9488_backlight_show: gpiod_get_value_cansleep, mutex_unlock, print
BacklightShowRead(t) ==
    /\ pc[t] = "bh_read"
    /\ lock' = "free"
    /\ cur' = [cur EXCEPT ![t] = [ReqDone(@, 2, Snap) EXCEPT !.out = << bl_val >>]]
    /\ pc' = [pc EXCEPT ![t] = "ret"]
    /\ UNCHANGED << devvars, rst_val, bl_val, power, current_color, attrs, lcdreg,
                    loc, owner, ctrl, faults, ncalls, codecvars >>

(***************************************************************************)
(* ili9488.c                                                               *)
(***************************************************************************)
ili9488_cmd_rgb(cmd) == ili9488_pack9(cmd, 0)

ili9488_data_rgb(data) == ili9488_pack9(data, 1)

\* ili9488_data_bulk: one transport call for all of buf; fk = "mem": the
\* kmalloc fails, fk = "bulk": the transport call fails with r
ili9488_data_bulk(buf, fk, r) ==
    IF Len(buf) = 0 THEN [es |-> << >>, ret |-> 0]
    ELSE IF fk = "mem" THEN [es |-> << >>, ret |-> ENOMEM]
    ELSE [es |-> << Ev("par", [j \in 1..Len(buf) |-> ili9488_pack9(buf[j], 1)],
                       1, 1, IF fk = "bulk" THEN r ELSE 0) >>,
          ret |-> IF fk = "bulk" THEN r ELSE 0]

\* ili9488_write_reg: the command, then its parameters unless the command
\* failed (fk = "cmd")
ili9488_write_reg(cmd, params, fk, r) ==
    IF fk = "cmd"
    THEN [es |-> << Ev("cmd", << ili9488_cmd_rgb(cmd) >>, 1, 1, r) >>, ret |-> r]
    ELSE IF Len(params) = 0
    THEN [es |-> << Ev("cmd", << ili9488_cmd_rgb(cmd) >>, 1, 1, 0) >>, ret |-> 0]
    ELSE [es |-> << Ev("cmd", << ili9488_cmd_rgb(cmd) >>, 1, 1, 0) >>
                 \o ili9488_data_bulk(params, fk, r).es,
          ret |-> ili9488_data_bulk(params, fk, r).ret]

\* where a list of register writes may fail: << 0, "none" >>, or write j at
\* its command, at its allocation or at its parameters
FailPts(regs) ==
    { << 0, "none" >> } \cup
    (IF faults > 0
     THEN { << j, "cmd" >> : j \in 1..Len(regs) } \cup
          { x \in (1..Len(regs)) \X {"mem", "bulk"} : Len(regs[x[1]].params) > 0 }
     ELSE {})

FailKind(fp, j) == IF fp[1] = j THEN fp[2] ELSE "none"

\* ili9488_hw_reset
ili9488_hw_reset ==
    IF ~reset_gpiod THEN << >>
    ELSE << Line("rst", 0), Delay(10), Line("rst", 1), Delay(120) >>

\* the register writes of ili9488_init_display, each with the msleep after it
InitSeqRgb ==
    << [cmd |-> CMD_SWRESET, params |-> << >>, ms |-> 120],
       [cmd |-> CMD_SLEEP_OUT, params |-> << >>, ms |-> 5],
       [cmd |-> CMD_COLMOD, params |-> << 85 >>, ms |-> 10],
       [cmd |-> CMD_MADCTL, params |-> << 72 >>, ms |-> 10],
       [cmd |-> CMD_DISPLAY_ON, params |-> << >>, ms |-> 50],
       [cmd |-> CMD_NORMAL_MODE_ON, params |-> << >>, ms |-> 10] >>

\* the events of ili9488_init_display when the write at fp fails with r; every
\* return value is overwritten and the function returns 0
ili9488_init_display(fp, r) ==
    ili9488_hw_reset \o
    Flat([j \in 1..Len(InitSeqRgb) |->
            ili9488_write_reg(InitSeqRgb[j].cmd, InitSeqRgb[j].params,
                              FailKind(fp, j), r).es
            \o << Delay(InitSeqRgb[j].ms) >>])

\* the register writes of ili9488_fill_screen: the window is the constant
\* 0..319 x 0..479
WindowRgb ==
    << [cmd |-> CMD_CASET, params |-> << 0, 0, 1, 63 >>],
       [cmd |-> CMD_PASET, params |-> << 0, 0, 1, 223 >>],
       [cmd |-> CMD_RAMWR, params |-> << >>] >>

\* ili9488_fill_screen up to the line loop: the register writes, returning at
\* the first failure, then the kmalloc of the line buffer (fp = << 4, "mem" >>:
\* it fails)
RECURSIVE fill_window_rgb_from(_, _, _)
fill_window_rgb_from(j, fp, r) ==
    IF j > Len(WindowRgb)
    THEN [es |-> << >>, ret |-> IF fp = << 4, "mem" >> THEN ENOMEM ELSE 0]
    ELSE LET w == ili9488_write_reg(WindowRgb[j].cmd, WindowRgb[j].params,
                                    FailKind(fp, j), r)
         IN IF w.ret # 0 THEN w
            ELSE [es |-> w.es \o fill_window_rgb_from(j + 1, fp, r).es,
                  ret |-> fill_window_rgb_from(j + 1, fp, r).ret]

fill_window_rgb(fp, r) == fill_window_rgb_from(1, fp, r)

\* a plausible slip: the low byte of a pixel sent first
line_pattern_lohi(color) ==
    << ili9488_pack9(BitAnd(color, 255), 1),
       ili9488_pack9(BitAnd(Shr(color, 8), 255), 1) >>

\* one line of the line buffer: per pixel the high byte, then the low byte
line_pattern(color) ==
    << ili9488_pack9(BitAnd(Shr(color, 8), 255), 1),
       ili9488_pack9(BitAnd(color, 255), 1) >>

\* rgb888_to_rgb565
rgb888_to_rgb565(r, g, b) ==
    U16(BitOr(BitOr(Shl(BitAnd(r, 248), 8), Shl(BitAnd(g, 252), 3)), Shr(b, 3)))

\* ili9488_fill_screen: CASET, PASET, RAMWR, the line buffer
FillScreenWin(t) ==
    /\ pc[t] = "g_win"
    /\ \E fp \in FailPts(WindowRgb) \cup (IF faults > 0 THEN { << 4, "mem" >> } ELSE {}) :
       \E r \in TransportErrs :
         LET w == fill_window_rgb(fp, r)
         IN /\ faults' = Spend(fp[1] # 0)
            /\ cur' = [cur EXCEPT ![t] = [ReqSend(@, t, w.es) EXCEPT !.fret = w.ret]]
            /\ owner' = OwnerSend(t, w.es)
            /\ ctrl' = CtrlFeedAll(ctrl, w.es)
            /\ loc' = [loc EXCEPT ![t].ret = w.ret]
            /\ pc' = [pc EXCEPT ![t] = IF w.ret # 0 THEN loc[t].cont ELSE "g_lines"]
    /\ UNCHANGED << devvars, rst_val, bl_val, power, current_color, lock, attrs,
                    lcdreg, ncalls, codecvars >>

\* ili9488_fill_screen: the line loop, one transport call per line; m lines
\* succeed in this step, or the next one fails and breaks the loop
FillScreenLines(t) ==
    /\ pc[t] = "g_lines"
    /\ \/ \E m \in Chunks(loc[t].i, height) :
            LET es == << Ev("pix", line_pattern(loc[t].color), width * m, width, 0) >>
            IN /\ cur' = [cur EXCEPT ![t] = [ReqSend(@, t, es) EXCEPT !.fret = 0]]
               /\ owner' = OwnerSend(t, es)
               /\ ctrl' = CtrlFeedAll(ctrl, es)
               /\ loc' = [loc EXCEPT ![t].ret = 0, ![t].i = @ + m]
               /\ pc' = IF loc[t].i + m < height
                        THEN pc ELSE [pc EXCEPT ![t] = loc[t].cont]
               /\ UNCHANGED faults
       \/ /\ faults > 0
          /\ \E r \in TransportErrs :
               LET es == << Ev("pix", line_pattern(loc[t].color), width, width, r) >>
               IN /\ cur' = [cur EXCEPT ![t] = [ReqSend(@, t, es) EXCEPT !.fret = r]]
                  /\ owner' = OwnerSend(t, es)
                  /\ ctrl' = CtrlFeedAll(ctrl, es)
                  /\ loc' = [loc EXCEPT ![t].ret = r]
                  /\ pc' = [pc EXCEPT ![t] = loc[t].cont]
                  /\ faults' = faults - 1
    /\ UNCHANGED << devvars, rst_val, bl_val, power, current_color, lock, attrs,
                    lcdreg, ncalls, codecvars >>

\* ili9488_set_power without the test of lcd->power
set_power_branch_untested(p) ==
    IF p = FB_BLANK_UNBLANK THEN "sp_init" ELSE "sp_off"

\* ili9488_set_power, the test of lcd->power: where the call goes next
set_power_branch(p) ==
    IF p = FB_BLANK_UNBLANK /\ power = 0 THEN "sp_init"
    ELSE IF p # FB_BLANK_UNBLANK /\ power # 0 THEN "sp_off"
    ELSE "sp_none"

\* ili9488_set_power, power on: ili9488_init_display
InitDisplay(t) ==
    /\ pc[t] = "sp_init"
    /\ \E fp \in FailPts(InitSeqRgb) : \E r \in TransportErrs :
         LET es == ili9488_init_display(fp, r)
         IN /\ faults' = Spend(fp[1] # 0)
            /\ cur' = [cur EXCEPT ![t] = ReqSend(@, t, es)]
            /\ owner' = OwnerSend(t, es)
            /\ ctrl' = CtrlFeedAll(ctrl, es)
    /\ rst_val' = IF reset_gpiod THEN 1 ELSE rst_val
    /\ loc' = [loc EXCEPT ![t].ret = 0]
    /\ pc' = [pc EXCEPT ![t] = "sp_on"]
    /\ UNCHANGED << devvars, bl_val, power, current_color, lock, attrs, lcdreg,
                    ncalls, codecvars >>

\* ili9488_set_power, power on, after the initialisation returned 0
SetPowerOn(t) ==
    /\ pc[t] = "sp_on"
    /\ power' = 1
    /\ bl_val' = IF bl_gpiod THEN 1 ELSE bl_val
    /\ cur' = [cur EXCEPT ![t] =
                 ReqSend(@, t, IF bl_gpiod THEN << Line("bl", 1), Delay(10) >>
                               ELSE << >>)]
    /\ pc' = [pc EXCEPT ![t] = loc[t].cont]
    /\ UNCHANGED << devvars, rst_val, current_color, lock, attrs, lcdreg, loc,
                    owner, ctrl, faults, ncalls, codecvars >>

\* ili9488_set_power, power off: display-off (its result is dropped), the
\* backlight, the flag
SetPowerOff(t) ==
    /\ pc[t] = "sp_off"
    /\ \E r \in {0} \cup (IF faults > 0 THEN TransportErrs ELSE {}) :
         LET es == << Ev("cmd", << ili9488_cmd_rgb(CMD_DISPLAY_OFF) >>, 1, 1, r) >>
                   \o (IF bl_gpiod THEN << Line("bl", 0) >> ELSE << >>)
         IN /\ faults' = Spend(r # 0)
            /\ cur' = [cur EXCEPT ![t] = ReqSend(@, t, es)]
            /\ owner' = OwnerSend(t, es)
            /\ ctrl' = CtrlFeedAll(ctrl, es)
    /\ bl_val' = IF bl_gpiod THEN 0 ELSE bl_val
    /\ power' = 0
    /\ loc' = [loc EXCEPT ![t].ret = 0]
    /\ pc' = [pc EXCEPT ![t] = loc[t].cont]
    /\ UNCHANGED << devvars, rst_val, current_color, lock, attrs, lcdreg, ncalls,
                    codecvars >>

\* ili9488_set_power when the device is already in the state asked for
SetPowerNone(t) ==
    /\ pc[t] = "sp_none"
    /\ loc' = [loc EXCEPT ![t].ret = 0]
    /\ pc' = [pc EXCEPT ![t] = loc[t].cont]
    /\ UNCHANGED << devvars, rst_val, bl_val, power, current_color, lock, attrs,
                    lcdreg, cur, owner, ctrl, faults, ncalls, codecvars >>

\* ili9488_probe up to the power-on: allocation, lines, geometry, SPI setup,
\* lcd_device, attribute files
ProbeRgbSetup ==
    /\ variant = "rgb"
    /\ pc["probe"] = "start"
    /\ \/ /\ rst_val' = 1
          /\ bl_val' = 0
          /\ power' = 0
          /\ lcdreg' = TRUE
          /\ attrs' = TRUE
          /\ pc' = [pc EXCEPT !["probe"] = "p_power"]
          /\ UNCHANGED faults
       \/ /\ faults > 0
          /\ faults' = faults - 1
          /\ pc' = [pc EXCEPT !["probe"] = "done"]
          /\ UNCHANGED << rst_val, bl_val, power, lcdreg, attrs >>
    /\ UNCHANGED << devvars, current_color, lock, loc, cur, owner, ctrl, ncalls,
                    codecvars >>

\* ili9488_probe: ili9488_set_power(lcd->ld, FB_BLANK_UNBLANK)
ProbeRgbPower ==
    /\ variant = "rgb"
    /\ pc["probe"] = "p_power"
    /\ cur' = [cur EXCEPT !["probe"] = Req("probe", "set_power", FB_BLANK_UNBLANK)]
    /\ loc' = [loc EXCEPT !["probe"].cont = "p_fill", !["probe"].arg = FB_BLANK_UNBLANK]
    /\ pc' = [pc EXCEPT !["probe"] = set_power_branch(FB_BLANK_UNBLANK)]
    /\ UNCHANGED << devvars, rst_val, bl_val, power, current_color, lock, attrs,
                    lcdreg, owner, ctrl, faults, ncalls, codecvars >>

\* ili9488_probe: msleep(100), then the red test fill
ProbeRgbFill ==
    /\ variant = "rgb"
    /\ pc["probe"] = "p_fill"
    /\ cur' = [cur EXCEPT !["probe"] =
                 ReqSend(Req("probe", "fill", 63488), "probe", << Delay(100) >>)]
    /\ loc' = [loc EXCEPT !["probe"] = FillEnter(@, 63488, "p_end")]
    /\ pc' = [pc EXCEPT !["probe"] = "g_win"]
    /\ UNCHANGED << devvars, rst_val, bl_val, power, current_color, lock, attrs,
                    lcdreg, owner, ctrl, faults, ncalls, codecvars >>

\* ili9488_probe: the result of the test fill is dropped; return 0
ProbeRgbEnd ==
    /\ variant = "rgb"
    /\ pc["probe"] = "p_end"
    /\ cur' = [cur EXCEPT !["probe"] = ReqDone(@, 0, Snap)]
    /\ pc' = [pc EXCEPT !["probe"] = "p_ret"]
    /\ UNCHANGED << devvars, rst_val, bl_val, power, current_color, lock, attrs,
                    lcdreg, loc, owner, ctrl, faults, ncalls, codecvars >>

ProbeRgbReturn ==
    /\ variant = "rgb"
    /\ pc["probe"] = "p_ret"
    /\ cur' = [cur EXCEPT !["probe"] = NoReq]
    /\ loc' = [loc EXCEPT !["probe"] = LocInit]
    /\ pc' = [pc EXCEPT !["probe"] = "done"]
    /\ UNCHANGED << devvars, rst_val, bl_val, power, current_color, lock, attrs,
                    lcdreg, owner, ctrl, faults, ncalls, codecvars >>

(***************************************************************************)
(* ili9488.c: the sysfs attributes fill and raw, the lcd operations.       *)
(***************************************************************************)
\* writes to fill: "#FF0000", "0 0 32", and one that sscanf rejects
FillInputs ==
    { [ok |-> TRUE, r |-> 255, g |-> 0, b |-> 0, count |-> 7],
      [ok |-> TRUE, r |-> 0, g |-> 0, b |-> 32, count |-> 6],
      [ok |-> FALSE, r |-> 0, g |-> 0, b |-> 0, count |-> 3] }

\* fill_store: the result of ili9488_fill_screen is dropped
fill_store_result(ret, count) == count

\* fill_store up to the call of ili9488_fill_screen
FillStore(t) ==
    /\ variant = "rgb"
    /\ MayCall(t)
    /\ ncalls' = ncalls + 1
    /\ \E in \in FillInputs :
         LET rej == IF power = 0 THEN ENODEV ELSE IF ~in.ok THEN EINVAL ELSE 0
         IN IF rej # 0
            THEN /\ cur' = [cur EXCEPT ![t] = ReqDone(Req(t, "fill_store", in), rej, Snap)]
                 /\ pc' = [pc EXCEPT ![t] = "ret"]
                 /\ UNCHANGED loc
            ELSE /\ cur' = [cur EXCEPT ![t] = Req(t, "fill_store", in)]
                 /\ loc' = [loc EXCEPT ![t] =
                              [FillEnter(@, rgb888_to_rgb565(in.r, in.g, in.b), "fs_ret")
                                 EXCEPT !.cnt = in.count]]
                 /\ pc' = [pc EXCEPT ![t] = "g_win"]
    /\ UNCHANGED << devvars, rst_val, bl_val, power, current_color, lock, attrs,
                    lcdreg, owner, ctrl, faults, codecvars >>

\* fill_store: return count
FillStoreRet(t) ==
    /\ pc[t] = "fs_ret"
    /\ cur' = [cur EXCEPT ![t] = ReqDone(@, fill_store_result(loc[t].ret, loc[t].cnt), Snap)]
    /\ pc' = [pc EXCEPT ![t] = "ret"]
    /\ UNCHANGED << devvars, rst_val, bl_val, power, current_color, lock, attrs,
                    lcdreg, loc, owner, ctrl, faults, ncalls, codecvars >>

\* the value sscanf("%x") yields for token j of a write to raw: "12c", "12d",
\* ... (distinct, and wider than the u8 they are stored in)
RawVal(j) == 299 + j
\* writes to raw: the operation letter ("" for a blank string) and the values
RawInputs ==
    { [op |-> o, vals |-> [j \in 1..n |-> RawVal(j)], count |-> 1 + 4 * n] :
        o \in {"C", "c", "D", "d", "X"}, n \in 0..MaxRawBytes }
    \cup { [op |-> "", vals |-> << >>, count |-> 1] }

\* raw_store with loops that go on after a failed call
raw_store_noabort(in, f, r) ==
    LET params == [j \in 1..Len(in.vals) |-> U8(in.vals[j])]
        num == Len(params)
        word(j) == IF j = 1 /\ in.op \in {"C", "c"}
                   THEN Ev("cmd", << ili9488_cmd_rgb(params[1]) >>, 1, 1,
                           IF j = f THEN r ELSE 0)
                   ELSE Ev("par", << ili9488_data_rgb(params[j]) >>, 1, 1,
                           IF j = f THEN r ELSE 0)
    IN IF in.op \notin {"C", "c", "D", "d"} THEN [es |-> << >>, ret |-> EINVAL]
       ELSE IF in.op \in {"C", "c"} /\ num = 0 THEN [es |-> << >>, ret |-> EINVAL]
       ELSE [es |-> [j \in 1..num |-> word(j)],
             ret |-> IF f # 0 THEN r ELSE in.count]

\* raw_store: the words sent when transport call f fails with r, and the
\* result; the loops return at the first failure
raw_store(in, f, r) ==
    LET params == [j \in 1..Len(in.vals) |-> U8(in.vals[j])]
        num == Len(params)
        sent == IF f = 0 THEN num ELSE f
        word(j) == IF j = 1 /\ in.op \in {"C", "c"}
                   THEN Ev("cmd", << ili9488_cmd_rgb(params[1]) >>, 1, 1,
                           IF j = f THEN r ELSE 0)
                   ELSE Ev("par", << ili9488_data_rgb(params[j]) >>, 1, 1,
                           IF j = f THEN r ELSE 0)
    IN IF in.op = "" THEN [es |-> << >>, ret |-> EINVAL]
       ELSE IF in.op \in {"C", "c"} /\ num = 0 THEN [es |-> << >>, ret |-> EINVAL]
       ELSE IF in.op \notin {"C", "c", "D", "d"} THEN [es |-> << >>, ret |-> EINVAL]
       ELSE [es |-> [j \in 1..sent |-> word(j)],
             ret |-> IF f # 0 THEN r ELSE in.count]

\* raw_store
RawStore(t) ==
    /\ variant = "rgb"
    /\ MayCall(t)
    /\ ncalls' = ncalls + 1
    /\ \E in \in RawInputs :
       \E f \in (IF in.op \in {"C", "c", "D", "d"} THEN FailIdx(Len(in.vals)) ELSE {0}) :
       \E r \in TransportErrs :
         LET w == raw_store(in, f, r)
             q == [Req(t, "raw_store", in) EXCEPT !.cut = FALSE]
         IN /\ faults' = Spend(f # 0)
            /\ cur' = [cur EXCEPT ![t] = ReqDone(ReqSend(q, t, w.es), w.ret, Snap)]
            /\ owner' = OwnerSend(t, w.es)
            /\ ctrl' = CtrlFeedAll(ctrl, w.es)
    /\ pc' = [pc EXCEPT ![t] = "ret"]
    /\ UNCHANGED << devvars, rst_val, bl_val, power, current_color, lock, attrs,
                    lcdreg, loc, codecvars >>

\* the values the lcd class passes to set_power
PowerInputs == {FB_BLANK_UNBLANK, 1, 4}

\* ili9488_set_power called through the lcd class
SetPower(t) ==
    /\ variant = "rgb"
    /\ pc[t] = "idle"
    /\ lcdreg
    /\ ncalls < MaxCalls
    /\ ncalls' = ncalls + 1
    /\ \E p \in PowerInputs :
         /\ cur' = [cur EXCEPT ![t] = Req(t, "set_power", p)]
         /\ loc' = [loc EXCEPT ![t].cont = "sp_ret", ![t].arg = p]
         /\ pc' = [pc EXCEPT ![t] = set_power_branch(p)]
    /\ UNCHANGED << devvars, rst_val, bl_val, power, current_color, lock, attrs,
                    lcdreg, owner, ctrl, faults, codecvars >>

\* ili9488_set_power: return ret
SetPowerRet(t) ==
    /\ pc[t] = "sp_ret"
    /\ cur' = [cur EXCEPT ![t] = ReqDone(@, loc[t].ret, Snap)]
    /\ pc' = [pc EXCEPT ![t] = "ret"]
    /\ UNCHANGED << devvars, rst_val, bl_val, power, current_color, lock, attrs,
                    lcdreg, loc, owner, ctrl, faults, ncalls, codecvars >>

\* ili9488_get_power
GetPower(t) ==
    /\ variant = "rgb"
    /\ pc[t] = "idle"
    /\ lcdreg
    /\ ncalls < MaxCalls
    /\ ncalls' = ncalls + 1
    /\ cur' = [cur EXCEPT ![t] =
                 [ReqDone(Req(t, "get_power", 0), power, Snap) EXCEPT !.out = << power >>]]
    /\ pc' = [pc EXCEPT ![t] = "ret"]
    /\ UNCHANGED << devvars, rst_val, bl_val, power, current_color, lock, attrs,
                    lcdreg, loc, owner, ctrl, faults, codecvars >>

\* the handler has returned to user space
Return(t) ==
    /\ pc[t] = "ret"
    /\ pc' = [pc EXCEPT ![t] = "idle"]
    /\ cur' = [cur EXCEPT ![t] = NoReq]
    /\ loc' = [loc EXCEPT ![t] = LocInit]
    /\ UNCHANGED << devvars, rst_val, bl_val, power, current_color, lock, attrs,
                    lcdreg, owner, ctrl, faults, ncalls, codecvars >>

(***************************************************************************)
(* Specification.                                                          *)
(***************************************************************************)
\* the configurations explored: the driver, the geometry the device tree gives
\* ili9488.c (none: the defaults, a 240x320 panel, or a width of 2049), whether the reset and
\* backlight lines are wired, and how many calls of the platform may fail
Configs ==
    { [variant |-> "min", w |-> DefaultWidth, h |-> DefaultHeight, lines |-> TRUE, faults |-> 0],
      [variant |-> "min", w |-> DefaultWidth, h |-> DefaultHeight, lines |-> TRUE, faults |-> MaxFaults],
      [variant |-> "min", w |-> DefaultWidth, h |-> DefaultHeight, lines |-> FALSE, faults |-> 0],
      [variant |-> "rgb", w |-> DefaultWidth, h |-> DefaultHeight, lines |-> TRUE, faults |-> 0],
      [variant |-> "rgb", w |-> DefaultWidth, h |-> DefaultHeight, lines |-> TRUE, faults |-> MaxFaults],
      [variant |-> "rgb", w |-> 240, h |-> 320, lines |-> TRUE, faults |-> 0],
      [variant |-> "rgb", w |-> 2049, h |-> DefaultHeight, lines |-> TRUE, faults |-> 0],
      [variant |-> "rgb", w |-> DefaultWidth, h |-> DefaultHeight, lines |-> FALSE, faults |-> 0] }

Init ==
    /\ \E c \in Configs :
          /\ variant = c.variant
          /\ width = c.w /\ height = c.h
          /\ reset_gpiod = c.lines /\ bl_gpiod = c.lines
          /\ faults = c.faults
    /\ rst_val = 0
    /\ bl_val = 0
    /\ power = 0
    /\ current_color = COLOR_BLACK
    /\ lock = "free"
    /\ attrs = FALSE
    /\ lcdreg = FALSE
    /\ pc = [t \in Threads |-> IF t = "probe" THEN "start" ELSE "idle"]
    /\ loc = [t \in Threads |-> LocInit]
    /\ cur = [t \in Threads |-> NoReq]
    /\ owner = "-"
    /\ ctrl = CtrlInit
    /\ ncalls = 0
    /\ in_dc = 0 /\ in_data = 0 /\ out9 = 0 /\ out2 = << 0, 0 >>

NextMin ==
    \/ ProbeMinSetup
    \/ Init3bit
    \/ ProbeMinFiles
    \/ ProbeMinTestLock
    \/ ProbeMinTestUnlock
    \/ ProbeMinTestNext
    \/ \E t \in Threads : FillColor3bitWin(t)
    \/ \E t \in Threads : FillColor3bitPix(t)
    \/ \E t \in Threads : FillColor3bitOut(t)
    \/ \E t \in Users : ColorStore(t)
    \/ \E t \in Users : ColorStoreLock(t)
    \/ \E t \in Users : ColorStoreUnlock(t)
    \/ \E t \in Users : ColorShow(t)
    \/ \E t \in Users : ColorShowLock(t)
    \/ \E t \in Users : ColorShowRead(t)
    \/ \E t \in Users : BacklightStore(t)
    \/ \E t \in Users : BacklightStoreLock(t)
    \/ \E t \in Users : BacklightStoreSet(t)
    \/ \E t \in Users : BacklightShow(t)
    \/ \E t \in Users : BacklightShowLock(t)
    \/ \E t \in Users : BacklightShowRead(t)
    \/ \E t \in Users : Return(t)

NextRgb ==
    \/ ProbeRgbSetup
    \/ ProbeRgbPower
    \/ ProbeRgbFill
    \/ ProbeRgbEnd
    \/ ProbeRgbReturn
    \/ \E t \in Threads : InitDisplay(t)
    \/ \E t \in Threads : SetPowerOn(t)
    \/ \E t \in Threads : SetPowerOff(t)
    \/ \E t \in Threads : SetPowerNone(t)
    \/ \E t \in Threads : FillScreenWin(t)
    \/ \E t \in Threads : FillScreenLines(t)
    \/ \E t \in Users : FillStore(t)
    \/ \E t \in Users : FillStoreRet(t)
    \/ \E t \in Users : RawStore(t)
    \/ \E t \in Users : SetPower(t)
    \/ \E t \in Users : SetPowerRet(t)
    \/ \E t \in Users : GetPower(t)

Next == NextMin \/ NextRgb

Spec == Init /\ [][Next]_vars

(***************************************************************************)
(* The codecs on their own: every (is_data, payload) is encoded both ways. *)
(***************************************************************************)
InitCodec ==
    /\ in_dc \in {0, 1}
    /\ in_data \in 0..255
    /\ out9 = -1
    /\ out2 = << >>
    /\ variant = "min"
    /\ width = DefaultWidth /\ height = DefaultHeight
    /\ reset_gpiod = FALSE /\ bl_gpiod = FALSE
    /\ rst_val = 0 /\ bl_val = 0 /\ power = 0
    /\ current_color = COLOR_BLACK
    /\ lock = "free"
    /\ attrs = FALSE /\ lcdreg = FALSE
    /\ pc = [t \in Threads |-> "done"]
    /\ loc = [t \in Threads |-> LocInit]
    /\ cur = [t \in Threads |-> NoReq]
    /\ owner = "-"
    /\ ctrl = CtrlInit
    /\ faults = 0
    /\ ncalls = 0

\* ili9488_pack9(in_data, in_dc) and the tx_buf of ili9488_send_9bit(lcd,
\* in_dc, in_data)
Encode ==
    /\ out9 = -1
    /\ out9' = ili9488_pack9(in_data, in_dc)
    /\ out2' = send_9bit_buf(in_dc, in_data)
    /\ UNCHANGED << devvars, rst_val, bl_val, power, current_color, lock, attrs,
                    lcdreg, pc, loc, cur, owner, ctrl, faults, ncalls, in_dc,
                    in_data >>

NextCodec == Encode

SpecCodec == InitCodec /\ [][NextCodec]_vars

(***************************************************************************)
(* Properties.                                                             *)
(***************************************************************************)
W(dc, payload) == [dc |-> dc, payload |-> payload]

WordEvents(tr) == SelectSeq(tr, IsWord)

\* the decoded words of the single-word and parameter events of es, in order
WireWords(es) ==
    Flat([j \in 1..Len(es) |->
            IF IsWord(es[j]) /\ es[j].n = 1 THEN Decode(es[j]) ELSE << >>])

\* the word events of a trace whose transport call failed
FailedIdx(tr) == {j \in 1..Len(tr) : IsWord(tr[j]) /\ tr[j].ret # 0}

FillOps == {"fill", "color_store", "fill_store"}

Encoded == out9 # -1

\* the window-set of the whole 320x480 screen, as the controller decodes it
FullWindowWords ==
    << W(0, 42), W(1, 0), W(1, 0), W(1, 1), W(1, 63),
       W(0, 43), W(1, 0), W(1, 0), W(1, 1), W(1, 223),
       W(0, 44) >>

\* thread t has run a fill of colour 0x04 on the 320x480 screen to its end
\* and nothing failed
FilledWith4(t) ==
    /\ cur[t].op \in FillOps
    /\ cur[t].done
    /\ HasWord(cur[t].tr)
    /\ cur[t].fret = 0
    /\ loc[t].color = 4
    /\ width = 320 /\ height = 480

\* the trace of thread t's request is the full window-set followed by one run
\* of pixel words, and nothing else
WindowThenPixels(t) ==
    LET ws == WordEvents(cur[t].tr)
    IN /\ Len(ws) > 1
       /\ ws[Len(ws)].k = "pix"
       /\ \A j \in 1..(Len(ws) - 1) : ws[j].k # "pix"
       /\ WireWords(SubSeq(ws, 1, Len(ws) - 1)) = FullWindowWords

LastWords(t) == WordEvents(cur[t].tr)[Len(WordEvents(cur[t].tr))]

\* C1 (as amended): a full-screen fill with colour 0x04 on the 320x480 screen,
\* when no transport call and no allocation fails, emits CASET 0,0,1,0x3F,
\* PASET 0,0,1,0xDF, RAMWR and then, in the 3-bit driver, 153600 data words of
\* payload 0x04, in the RGB565 driver 153600 pairs of data words 0x00, 0x04
C1_FillTraceByVariant ==
    \A t \in Threads :
        FilledWith4(t) =>
            /\ WindowThenPixels(t)
            /\ Decode(LastWords(t)) =
                 (IF variant = "min" THEN << W(1, 4) >> ELSE << W(1, 0), W(1, 4) >>)
            /\ LastWords(t).n = 153600

\* C1, a case of it: the RGB565 driver has filled the screen with 0x0004
C1_Witness == \E t \in Threads : FilledWith4(t) /\ variant = "rgb"

\* C1 (as stated): the fill emits the window-set and then exactly 153600 data
\* words, each of payload 0x04, in either driver
C1_FillTraceAsStated ==
    \A t \in Threads :
        FilledWith4(t) =>
            /\ WindowThenPixels(t)
            /\ \A j \in 1..Len(LastWords(t).w) : Decode(LastWords(t))[j] = W(1, 4)
            /\ Len(LastWords(t).w) * LastWords(t).n = 153600

\* C2: the controller never receives a command word while the data words
\* since RAMWR differ in number from the window it was given, nor more data
\* words than the window holds
C2_PixelCountInvariant == ~ctrl.desync

\* C3: no word of another caller goes out between two words of one request
C3_NoInterleaving == \A t \in Threads : ~cur[t].cut

\* C4: the native word and the emulated word of the same (is_data, payload)
\* decode to the same pair, which is the pair that was encoded
C4_CodecEquivalence ==
    Encoded =>
        /\ Decode9(out9) = Decode2(out2)
        /\ Decode9(out9) = W(in_dc, in_data)

\* C4, a case of it: a data word with an odd payload has been encoded
C4_Witness == Encoded /\ in_dc = 1 /\ in_data = 255

\* C5: the emulated encoder yields two bytes, byte0 = (is_data << 7) |
\* (payload >> 1) and byte1 = (payload & 1) << 7; the low seven bits of byte1
\* are zero and both bytes are within 0..255
C5_EmulatedBytes ==
    Encoded =>
        /\ Len(out2) = 2
        /\ out2[1] = in_dc * 128 + (in_data \div 2)
        /\ out2[2] = (in_data % 2) * 128
        /\ out2[2] % 128 = 0
        /\ out2[1] \in 0..255 /\ out2[2] \in 0..255

\* C5, a case of it: a data word whose low payload bit is set has been encoded
C5_Witness == Encoded /\ in_dc = 1 /\ in_data = 171

\* the opcodes the drivers' own sequences send
Opcodes ==
    {CMD_SWRESET, CMD_SLEEP_OUT, CMD_NORMAL_MODE_ON, CMD_INVON, CMD_DISPLAY_OFF,
     CMD_DISPLAY_ON, CMD_CASET, CMD_PASET, CMD_RAMWR, CMD_MADCTL, CMD_COLMOD}

\* C6: in every trace a word sent as an opcode has flag 0 (and, outside the
\* raw attribute, is one of the controller's opcodes); a word sent as a
\* parameter or a pixel value has flag 1
C6_FlagMatchesRole ==
    \A t \in Threads : \A j \in 1..Len(cur[t].tr) :
        LET e == cur[t].tr[j]
        IN IsWord(e) =>
             \A i \in 1..Len(e.w) :
                /\ Decode(e)[i].dc = (IF e.k = "cmd" THEN 0 ELSE 1)
                /\ (e.k = "cmd" /\ cur[t].op # "raw_store")
                      => Decode(e)[i].payload \in Opcodes

\* C6, a case of it: one request has sent an opcode, a parameter and pixels
C6_Witness ==
    \E t \in Threads :
        /\ \E j \in 1..Len(cur[t].tr) : cur[t].tr[j].k = "cmd"
        /\ \E j \in 1..Len(cur[t].tr) : cur[t].tr[j].k = "par"
        /\ \E j \in 1..Len(cur[t].tr) : cur[t].tr[j].k = "pix"

\* C7: when the transport fails on a word of a fill, the fill sends no further
\* word and returns the transport's error; in the 3-bit driver current_color
\* is what it was when the fill was entered
C7_FillAbortsOnTransportError ==
    \A t \in Threads :
        (cur[t].op \in FillOps /\ FailedIdx(cur[t].tr) # {}) =>
            /\ \A j \in FailedIdx(cur[t].tr) :
                 \A i \in (j + 1)..Len(cur[t].tr) : ~IsWord(cur[t].tr[i])
            /\ pc[t] \notin {"f_win", "f_pix", "f_out", "g_win", "g_lines"}
                 => \E j \in FailedIdx(cur[t].tr) : cur[t].fret = cur[t].tr[j].ret
            /\ (variant = "min" /\ pc[t] = loc[t].cont)
                 => current_color = loc[t].old

\* C7, a case of it: a 3-bit fill of a new colour has returned after its 50th
\* data word failed
C7_Witness ==
    \E t \in Threads :
        /\ variant = "min"
        /\ pc[t] = loc[t].cont
        /\ cur[t].op \in FillOps
        /\ loc[t].color # loc[t].old
        /\ \E j \in 2..Len(cur[t].tr) :
             /\ cur[t].tr[j].k = "pix" /\ cur[t].tr[j].ret # 0
             /\ cur[t].tr[j - 1].k = "pix" /\ cur[t].tr[j - 1].n = 49

\* C8: a write to color or to fill during which a transport call failed
\* returns the transport's error code
C8_StoreReturnsTransportError ==
    \A t \in Threads :
        (cur[t].op \in {"color_store", "fill_store"} /\ cur[t].done
           /\ FailedIdx(cur[t].tr) # {})
        => \E j \in FailedIdx(cur[t].tr) : cur[t].ret = cur[t].tr[j].ret

\* thread t has just run the initialisation sequence
InitRan(t) ==
    \/ variant = "min" /\ cur[t].op = "init"
    \/ variant = "rgb" /\ cur[t].op = "set_power" /\ pc[t] = "sp_on"

\* C9: the words of an initialisation are 0x01, 0x11, 0x3A and one data byte,
\* 0x36 and data 0x48, 0x21, 0x13, 0x29, in this order and nothing else
C9_InitOrder ==
    \A t \in Threads :
        InitRan(t) =>
            \E depth \in 0..255 :
                WireWords(cur[t].tr) =
                    << W(0, 1), W(0, 17), W(0, 58), W(1, depth), W(0, 54), W(1, 72),
                       W(0, 33), W(0, 19), W(0, 41) >>

\* the mandatory settle delay after an opcode
MinDelay(op) ==
    CASE op = 1 -> 150 [] op = 17 -> 120 [] op = 58 -> 10 [] op = 54 -> 10
      [] op = 33 -> 10 [] op = 19 -> 10 [] op = 41 -> 50 [] OTHER -> 0

\* the last event of the step that starts with the opcode at j
StepEnd(tr, j) == IF j < Len(tr) /\ tr[j + 1].k = "par" THEN j + 1 ELSE j

DelayAfter(tr, j) == IF j < Len(tr) /\ tr[j + 1].k = "ms" THEN tr[j + 1].n ELSE 0

\* C10: in an initialisation the delay after each step is at least its
\* minimum: 20 and 120 for the two phases of the reset line, 150, 120, 10,
\* 10, 10, 10, 50 for the seven commands
C10_InitDelays ==
    \A t \in Threads :
        InitRan(t) =>
            \A j \in 1..Len(cur[t].tr) :
                LET e == cur[t].tr[j]
                IN /\ e.k = "rst"
                        => DelayAfter(cur[t].tr, j) >= (IF e.n = 0 THEN 20 ELSE 120)
                   /\ e.k = "cmd"
                        => DelayAfter(cur[t].tr, StepEnd(cur[t].tr, j))
                              >= MinDelay(Decode(e)[1].payload)

\* C11: when a word of the initialisation sequence fails in the transport, no
\* later word of the sequence is sent
C11_InitAbortsOnFailure ==
    \A t \in Threads :
        (InitRan(t) /\ FailedIdx(cur[t].tr) # {}) =>
            \A j \in FailedIdx(cur[t].tr) :
                \A i \in (j + 1)..Len(cur[t].tr) : ~IsWord(cur[t].tr[i])

\* the device has been initialised and, in ili9488.c, is marked powered on
DeviceReady ==
    IF variant = "rgb" THEN power = 1 ELSE pc["probe"] \notin {"start", "init"}

\* thread t sends a word of a fill in this step
FillSends(t) ==
    /\ cur'[t].op \in FillOps
    /\ WordEvents(cur'[t].tr) # WordEvents(cur[t].tr)

\* C12: a fill sends a window-set or pixel word only while the device is
\* initialised and powered on
C12_FillOnlyWhenReady ==
    [][\A t \in Threads : FillSends(t) => DeviceReady]_vars

\* thread t is inside ili9488_fill_color_3bit
InFill(t) == pc[t] \in {"f_win", "f_pix", "f_out"}

\* C13: current_color is black until a fill returns success, changes only
\* when a fill that holds the lock returns success, and is then that fill's
\* colour; a read prints current_color while it holds the lock, with no fill
\* in progress
C13_ColorReadLinearizable ==
    [][/\ current_color' # current_color =>
             \E t \in Threads :
                /\ pc[t] = "f_out" /\ pc'[t] # "f_out"
                /\ lock = t
                /\ loc[t].ret = 0
                /\ current_color' = loc[t].color
       /\ \A t \in Threads :
             (pc[t] = "f_out" /\ pc'[t] # "f_out") =>
                current_color' = (IF loc[t].ret = 0 THEN loc[t].color ELSE current_color)
       /\ \A t \in Threads :
             (pc[t] = "sh_read" /\ pc'[t] # "sh_read") =>
                /\ lock = t
                /\ cur'[t].out = << current_color >>
                /\ \A u \in Threads : ~InFill(u)
       /\ pc["probe"] \in {"start", "init", "mkfiles"} => current_color = COLOR_BLACK
      ]_vars

\* C13, a case of it: a read printed red, the colour of the probe's first
\* test fill, after the probe's next fill (green) had failed
C13_Witness ==
    /\ cur["u1"].op = "color_show" /\ cur["u1"].done
    /\ cur["u1"].out = << COLOR_RED >>
    /\ pc["probe"] = "pt_next"
    /\ loc["probe"].color = COLOR_GREEN
    /\ FailedIdx(cur["probe"].tr) # {}
    /\ current_color = COLOR_RED

\* the positions between a handler's mutex_lock and its mutex_unlock
LockedPcs == {"f_win", "f_pix", "f_out", "pt_unlock", "cs_unlock", "sh_read",
              "bs_set", "bh_read"}

\* C14: the lock is held by a thread exactly while that thread is between the
\* mutex_lock and the mutex_unlock of a handler; it is free whenever no such
\* section is running, so no handler returns holding it and none releases a
\* lock another thread took
C14_LockReleasedOnEveryPath ==
    variant = "min" =>
        /\ lock \in {"free"} \cup Threads
        /\ \A t \in Threads : (lock = t) <=> (pc[t] \in LockedPcs)

\* C14, a case of it: a colour write has returned the transport's error and
\* the lock is free
C14_Witness ==
    /\ variant = "min"
    /\ cur["u1"].op = "color_store" /\ cur["u1"].done
    /\ FailedIdx(cur["u1"].tr) # {}
    /\ cur["u1"].ret < 0
    /\ pc["u1"] = "ret"
    /\ lock = "free"

\* thread t has run a fill to its end and the fill returned success
FillSucceeded(t) ==
    /\ cur[t].op \in FillOps
    /\ cur[t].done
    /\ HasWord(cur[t].tr)
    /\ cur[t].fret = 0

\* C15: two successful fills of the same colour, one after the other, send
\* the same words, and (3-bit driver) current_color is that colour after each
C15_FillIdempotent ==
    \A t \in Threads : \A u \in Threads :
        (t # u /\ FillSucceeded(t) /\ FillSucceeded(u) /\ loc[t].color = loc[u].color)
        => /\ WordEvents(cur[t].tr) = WordEvents(cur[u].tr)
           /\ variant = "min" =>
                 /\ cur[t].post.color = loc[t].color
                 /\ cur[u].post.color = loc[u].color
                 /\ current_color = loc[t].color

\* C15, a case of it: the probe's red test fill and a write of red to the
\* colour attribute have both returned success, one right after the other
C15_Witness ==
    /\ variant = "min"
    /\ FillSucceeded("probe") /\ FillSucceeded("u1")
    /\ loc["probe"].color = COLOR_RED /\ loc["u1"].color = COLOR_RED

\* thread t's request is a write to color of a number above 7
WroteBadColor(t) ==
    /\ cur[t].op = "color_store"
    /\ cur[t].arg.num
    /\ cur[t].arg.val > 7

\* C16: a colour write of a number outside 0..7 returns -EINVAL, sends no
\* word, never holds the lock and leaves current_color as it was
C16_BadColorRejected ==
    \A t \in Threads :
        WroteBadColor(t) =>
            /\ cur[t].done
            /\ cur[t].ret = EINVAL
            /\ cur[t].tr = << >>
            /\ pc[t] = "ret"
            /\ lock # t
            /\ cur[t].post = cur[t].pre

\* C16, a case of it: "8" has been written to color after the probe's red
\* test fill
C16_Witness ==
    /\ WroteBadColor("u1")
    /\ cur["u1"].arg.val = 8
    /\ cur["u1"].pre.color = COLOR_RED

\* C17: a call of set_power that has run sends at most one word, display-off
\* (0x28) when powering off and display-on (0x29) when powering on, and does
\* not write the backlight line
C17_PowerFrame ==
    \A t \in Threads :
        (cur[t].op = "set_power" /\ pc[t] \in {"sp_ret", "p_fill", "ret"}) =>
            /\ WireWords(cur[t].tr) \in
                 { << >>,
                   << W(0, IF cur[t].arg = FB_BLANK_UNBLANK
                           THEN CMD_DISPLAY_ON ELSE CMD_DISPLAY_OFF) >> }
            /\ \A j \in 1..Len(cur[t].tr) : cur[t].tr[j].k # "bl"

\* the positions in a trace of the writes to the reset line, of the words
RstIdx(tr) == {j \in 1..Len(tr) : tr[j].k = "rst"}
WordIdx(tr) == {j \in 1..Len(tr) : IsWord(tr[j])}

\* C18: without a reset line an initialisation starts with the software-reset
\* command, with no write to a reset line and no delay before it; with a reset
\* line it writes 0 and then 1 to the line, both before the software-reset
\* command
C18_ResetPhase ==
    \A t \in Threads :
        InitRan(t) =>
            LET tr == cur[t].tr
                first == CHOOSE j \in WordIdx(tr) : \A i \in WordIdx(tr) : j <= i
            IN /\ WordIdx(tr) # {}
               /\ tr[first].k = "cmd"
               /\ Decode(tr[first]) = << W(0, CMD_SWRESET) >>
               /\ IF reset_gpiod
                  THEN /\ first = 5
                       /\ RstIdx(tr) = {1, 3}
                       /\ tr[1].n = 0 /\ tr[3].n = 1
                       /\ rst_val = 1
                  ELSE /\ first = 1
                       /\ RstIdx(tr) = {}

\* C18, a case of it: the 3-bit driver has initialised a device that has no
\* reset line
C18_Witness ==
    /\ variant = "min"
    /\ ~reset_gpiod
    /\ InitRan("probe")
    /\ Len(cur["probe"].tr) > 9

\* the pixel events of a trace
PixIdx(tr) == {j \in 1..Len(tr) : tr[j].k = "pix"}

\* C19: every pixel burst of a fill holds at most 4096 words, and a fill that
\* returned success has sent, in one run of equal bursts, the words of all its
\* pixels: width*height pairs of high byte, low byte in ili9488.c, 320*480
\* words in ili9488-minimal.c
C19_BurstsBounded ==
    \A t \in Threads :
        cur[t].op \in FillOps =>
            /\ \A j \in PixIdx(cur[t].tr) :
                  cur[t].tr[j].b * Len(cur[t].tr[j].w) <= 4096
            /\ FillSucceeded(t) =>
                  /\ Cardinality(PixIdx(cur[t].tr)) = 1
                  /\ LastWords(t).k = "pix"
                  /\ Decode(LastWords(t)) =
                       (IF variant = "rgb"
                        THEN << W(1, (loc[t].color \div 256) % 256),
                                W(1, loc[t].color % 256) >>
                        ELSE << W(1, loc[t].color) >>)
                  /\ LastWords(t).n =
                       (IF variant = "rgb" THEN width * height
                        ELSE DefaultWidth * DefaultHeight)

\* C20: in the 3-bit driver current_color is always within 0..7, is black
\* until the probe has created the attribute files, and changes only in a
\* step of a fill whose thread holds the lock and whose result is success
C20_ColorCacheInvariant ==
    /\ [](variant = "min" =>
            /\ current_color \in 0..7
            /\ pc["probe"] \in {"start", "init", "mkfiles"}
                  => current_color = COLOR_BLACK)
    /\ [][(variant = "min" /\ current_color' # current_color) =>
             \E t \in Threads :
                InFill(t) /\ lock = t /\ lock' = t /\ loc[t].ret = 0]_vars

\* C20, a case of it: the probe's blue test fill has just written the cache
\* and still holds the lock
C20_Witness ==
    /\ variant = "min"
    /\ pc["probe"] = "pt_unlock"
    /\ lock = "probe"
    /\ loc["probe"].ret = 0
    /\ loc["probe"].old # COLOR_BLUE
    /\ current_color = COLOR_BLUE

(***************************************************************************)
(* C21: in ili9488.c the power flag is always 0 or 1, and a set_power call *)
(* that asks for the state the device is already in (unblank while the     *)
(* flag is 1, anything else while it is 0) takes the branch that does      *)
(* nothing: that branch sends no word, leaves the flag, the backlight line *)
(* and the controller as they are, and the call returns 0.                 *)
(***************************************************************************)
AlreadyThere(p, flag) ==
    \/ p = FB_BLANK_UNBLANK /\ flag = 1
    \/ p # FB_BLANK_UNBLANK /\ flag = 0

C21_SetPowerNoOp ==
    /\ [](power \in {0, 1})
    /\ [](\A t \in Threads :
            (/\ cur[t].op = "set_power"
             /\ cur[t].done
             /\ AlreadyThere(cur[t].arg, cur[t].pre.power))
            => cur[t].tr = << >> /\ cur[t].ret = 0)
    /\ [][\A t \in Threads :
            /\ (/\ cur'[t].op = "set_power"
                /\ cur[t].op # "set_power"
                /\ AlreadyThere(cur'[t].arg, power))
               => pc'[t] = "sp_none"
            /\ (pc[t] = "sp_none" /\ pc'[t] # "sp_none")
               => /\ power' = power
                  /\ bl_val' = bl_val
                  /\ rst_val' = rst_val
                  /\ ctrl' = ctrl
                  /\ owner' = owner
                  /\ cur'[t].tr = << >>
                  /\ loc'[t].ret = 0]_vars

\* a set_power(FB_BLANK_UNBLANK) that found the display on has returned
C21_Witness ==
    \E t \in Users :
       /\ variant = "rgb"
       /\ pc[t] = "ret"
       /\ cur[t].op = "set_power"
       /\ cur[t].arg = FB_BLANK_UNBLANK
       /\ cur[t].pre.power = 1
       /\ cur[t].post.power = 1
       /\ cur[t].tr = << >>
       /\ cur[t].ret = 0

(***************************************************************************)
(* C22: ili9488_get_power reports the power state in the convention that   *)
(* ili9488_set_power accepts: a set_power call whose argument is the value *)
(* get_power returns in the state where the call is made (lcd->power)      *)
(* sends no word and leaves the power flag as it was.  Stated for calls    *)
(* made once the probe has returned, so that no other call is running.     *)
(***************************************************************************)
C22_GetSetPowerRoundTrip ==
    \A t \in Users :
       (/\ variant = "rgb"
        /\ pc["probe"] = "done"
        /\ cur[t].op = "set_power"
        /\ cur[t].done
        /\ cur[t].arg = cur[t].pre.power)
       => /\ cur[t].tr = << >>
          /\ cur[t].post.power = cur[t].pre.power

(***************************************************************************)
(* C23: a write to raw whose operation letter is C or c and that carries   *)
(* n >= 1 bytes sends the first byte as a command word and the other n - 1 *)
(* as data words, in order; with D or d it sends all n bytes as data       *)
(* words, in order; with C or c and no byte, or with any other letter, it  *)
(* sends nothing and returns -EINVAL; and the word whose transport call    *)
(* failed is the last word sent, sent once.                                *)
(***************************************************************************)
\* the words a write to raw is to send when C is the set of letters that ask
\* for a command and D the set that ask for data
RawExpect(in, C) ==
    [j \in 1..Len(in.vals) |->
        W(IF j = 1 /\ in.op \in C THEN 0 ELSE 1, in.vals[j] % 256)]

RawAsStated(q, C, D) ==
    LET in == q.arg
        n == Len(in.vals)
        tr == q.tr
    IN IF (in.op \in C /\ n >= 1) \/ in.op \in D
       THEN /\ Len(tr) <= n
            /\ \A j \in 1..Len(tr) :
                 /\ IsWord(tr[j]) /\ tr[j].n = 1
                 /\ Decode(tr[j]) = << RawExpect(in, C)[j] >>
                 /\ j < Len(tr) => tr[j].ret = 0
            /\ FailedIdx(tr) = {} => Len(tr) = n
       ELSE tr = << >> /\ q.ret = EINVAL

C23_RawStoreWords ==
    \A t \in Threads :
       (cur[t].op = "raw_store" /\ cur[t].done)
       => RawAsStated(cur[t], {"C", "c"}, {"D", "d"})

\* a write of "C 12c 12d" has sent command 0x2C and data 0x2D
C23_Witness ==
    \E t \in Users :
       /\ pc[t] = "ret"
       /\ cur[t].op = "raw_store"
       /\ cur[t].arg.op = "C"
       /\ Len(cur[t].arg.vals) = 2
       /\ WireWords(cur[t].tr) = << W(0, 44), W(1, 45) >>
       /\ FailedIdx(cur[t].tr) = {}

\* C23 with the letters as the statement names them: C and D in upper case only
C23_RawStoreUpperCaseOnly ==
    \A t \in Threads :
       (cur[t].op = "raw_store" /\ cur[t].done)
       => RawAsStated(cur[t], {"C"}, {"D"})

(***************************************************************************)
(* The 3-bit driver under fair scheduling: every step of a running handler *)
(* is eventually taken (each transport call returns), and a thread that    *)
(* waits for lcd->lock gets it if it is free again and again.  User space  *)
(* is not required to make any call.                                       *)
(***************************************************************************)
InitMin == Init /\ variant = "min"

LockWaitPcs == {"cs_lock", "sh_lock", "bs_lock", "bh_lock"}

\* the steps of thread t that wait for nothing
StepMin(t) ==
    \/ t = "probe" /\ (ProbeMinSetup \/ Init3bit \/ ProbeMinFiles
                          \/ ProbeMinTestUnlock \/ ProbeMinTestNext)
    \/ FillColor3bitWin(t) \/ FillColor3bitPix(t) \/ FillColor3bitOut(t)
    \/ t \in Users /\ (ColorStoreUnlock(t) \/ ColorShowRead(t)
                          \/ BacklightStoreSet(t) \/ BacklightShowRead(t)
                          \/ Return(t))

\* mutex_lock returning in thread t
LockMin(t) ==
    \/ t = "probe" /\ ProbeMinTestLock
    \/ t \in Users /\ (ColorStoreLock(t) \/ ColorShowLock(t)
                          \/ BacklightStoreLock(t) \/ BacklightShowLock(t))

FairMin == \A t \in Threads : WF_vars(StepMin(t)) /\ SF_vars(LockMin(t))

SpecMinFair == InitMin /\ [][NextMin]_vars /\ FairMin

\* the words of the events of kind k in a trace
RECURSIVE NWords(_, _)
NWords(tr, k) ==
    IF tr = << >> THEN 0
    ELSE (IF Head(tr).k \in k THEN Head(tr).n * Len(Head(tr).w) ELSE 0)
         + NWords(Tail(tr), k)

(***************************************************************************)
(* C24: in the 3-bit driver, under fair scheduling, every write or read of *)
(* color and of backlight that has reached mutex_lock returns to its       *)
(* caller with the lock released; it leaves mutex_lock only by taking the  *)
(* free lock (so it waits for the probe's test fills, which hold the lock, *)
(* and is not left waiting).  A fill sends at most 11 window-set words and *)
(* at most 153600 pixel words.                                             *)
(***************************************************************************)
C24_AccessesTerminate ==
    /\ \A t \in Users : (pc[t] \in LockWaitPcs) ~> (pc[t] = "idle" /\ lock # t)
    /\ [][\A t \in Users :
            (pc[t] \in LockWaitPcs /\ pc'[t] # pc[t])
            => (lock = "free" /\ lock' = t)]_vars
    /\ [](\A t \in Threads :
            cur[t].op \in FillOps
            => /\ NWords(cur[t].tr, {"cmd", "par"}) <= 11
               /\ NWords(cur[t].tr, {"pix"}) <= 153600)

\* a write to color has painted the whole screen between two of the probe's
\* test fills
C24_Witness ==
    /\ variant = "min"
    /\ pc["u1"] = "ret"
    /\ cur["u1"].op = "color_store"
    /\ NWords(cur["u1"].tr, {"cmd", "par"}) = 11
    /\ NWords(cur["u1"].tr, {"pix"}) = 153600
    /\ lock = "free"
    /\ pc["probe"] = "test"
    /\ loc["probe"].ti > 1

=============================================================================
